---- MODULE Spec2Model ----
(***************************************************************************)
(* Model of the blackroad-os-api gateway: the upstream clients             *)
(* (app/clients), the API-key dependency (app/middleware/auth.py), the     *)
(* rate limiter (app/rate_limiting.py), the error handler middleware       *)
(* (app/middleware/errors.py) and the routes of app/generated/router.py    *)
(* as app/main.py composes them.                                           *)
(*                                                                         *)
(* Python values are encoded as follows.                                   *)
(*   Optional[T]   : <<>> is None, <<x>> is the value x.                   *)
(*   URL strings   : sequences of tokens, "/" being a token of its own,    *)
(*                   so that rstrip("/") is computed, not assumed.         *)
(*   dict[str, _]  : a set of <<key, value>> pairs with distinct keys.     *)
(*   JSON values   : records [t, s, n, items, fields] tagged by t; a JSON  *)
(*                   string and a message are token sequences, <<>> being  *)
(*                   the empty string, so that prefixes can be cut.        *)
(*   a call result : Return(v, sent) or Raise(exc, sent), sent being the   *)
(*                   number of HTTP requests the call issued.              *)
(***************************************************************************)
EXTENDS Integers, Sequences, FiniteSets, TLC

VARIABLES
    settings,   \* the Settings object the dependencies read
    storage,    \* the limiter's counters: scope -> [count, ttl]
    arrivals,   \* history: requests received per scope since the last tick
    admitted,   \* history: per scope, the requests the limit let through in each of
                \* the last MinuteTicks intervals between ticks, the current one first
    req,        \* the last inbound request
    upstream,   \* how the upstream behaved while it was served
    caught,     \* the exception call_next raised to ErrorHandlerMiddleware, if any
    state_request_id, \* request.state.request_id while it was served
    generated,  \* history: the ids uuid4 has returned, in order
    resp,       \* the response sent for it
    op,         \* the last client operation invoked directly
    result,     \* what that operation returned or raised
    sent,       \* HTTP requests issued upstream by the last operation
    forwarded,  \* what the last proxied request handed to the upstream client
    timeout,    \* the timeout the last upstream call handed to httpx.AsyncClient
    inflight    \* the requests being served that await their upstream, by task

vars == <<settings, storage, arrivals, admitted, req, upstream, caught,
         state_request_id, generated, resp, op, result, sent, forwarded, timeout,
         inflight>>

----------------------------------------------------------------------------
(* Bounds of the model *)

\* requests received in one burst (Spec)
MaxRequests == 2
\* clock ticks in one minute
MinuteTicks == 2
\* requests served at the same time (SpecConcurrent)
MaxInflight == 2

----------------------------------------------------------------------------
(* Optional values, strings, dicts *)

None == <<>>
Some(x) == <<x>>
Val(o) == o[1]

\* truthiness of an Optional[str] whose string is a TLA+ string
TruthyStr(o) == o # None /\ Val(o) # ""
\* mutation of TruthyUrl: tested with "is not None", so an empty string passes
TruthyUrl_not_none(o) == o # None

\* truthiness of an Optional[str] whose string is a token sequence
TruthyUrl(o) == o # None /\ Val(o) # <<>>

\* str.rstrip("/")
RECURSIVE RStrip(_)
RStrip(s) ==
    IF s # <<>> /\ s[Len(s)] = "/" THEN RStrip(SubSeq(s, 1, Len(s) - 1)) ELSE s

\* x = <expression>; F(x): the expression is evaluated once
With(x, F(_)) == CHOOSE y \in {F(v) : v \in {x}} : TRUE

Keys(d) == {p[1] : p \in d}
HasKey(d, k) == k \in Keys(d)
Get(d, k) == (CHOOSE p \in d : p[1] = k)[2]
\* {**a, **b}: the entries of b override those of a
Merge(a, b) == {p \in a : ~HasKey(b, p[1])} \cup b

----------------------------------------------------------------------------
(* JSON values *)

JNull == [t |-> "null", s |-> <<>>, n |-> 0, items |-> <<>>, fields |-> {}]
JStr(x) == [t |-> "str", s |-> x, n |-> 0, items |-> <<>>, fields |-> {}]
JInt(x) == [t |-> "int", s |-> <<>>, n |-> x, items |-> <<>>, fields |-> {}]
JList(xs) == [t |-> "list", s |-> <<>>, n |-> 0, items |-> xs, fields |-> {}]
JDict(fs) == [t |-> "dict", s |-> <<>>, n |-> 0, items |-> <<>>, fields |-> fs]

\* Python truthiness of a parsed JSON value
Truthy(j) ==
    CASE j.t = "null" -> FALSE
      [] j.t = "str" -> j.s # <<>>
      [] j.t = "int" -> j.n # 0
      [] j.t = "list" -> j.items # <<>>
      [] j.t = "dict" -> j.fields # {}

\* dict.get(k): None when the key is absent
DictGet(j, k) == IF HasKey(j.fields, k) THEN Get(j.fields, k) ELSE JNull
\* a or b
Or(a, b) == IF Truthy(a) THEN a ELSE b

----------------------------------------------------------------------------
(* Call results and exceptions *)

Return(v, n) == [raised |-> FALSE, value |-> v, sent |-> n]
Raise(e, n) == [raised |-> TRUE, exc |-> e, sent |-> n]

\* default of UpstreamError.status_code
DEFAULT_STATUS == 502

\* UpstreamError.__init__: details or {}
UpstreamError(source, status_code, message, details) ==
    [type |-> "UpstreamError", source |-> source, status_code |-> status_code,
     detail |-> message, detail_is_dict |-> FALSE, details |-> details]

\* fastapi.HTTPException with a dict or a str as detail
HTTPException(status_code, detail, is_dict) ==
    [type |-> "HTTPException", status_code |-> status_code,
     detail |-> detail, detail_is_dict |-> is_dict]

\* an exception that is no HTTPException; msg is str(exc)
PyError(type, msg) == [type |-> type, msg |-> msg]

\* isinstance(exc, UpstreamError)
IsUpstreamError(e) == e.type = "UpstreamError"
\* isinstance(exc, HTTPException): UpstreamError and RateLimitExceeded derive from it
IsHTTPException(e) == e.type \in {"HTTPException", "UpstreamError", "RateLimitExceeded"}

----------------------------------------------------------------------------
(* The HTTP transport: what one upstream call can do *)

\* a response body: its text, and what json.loads makes of it
Body(text, valid, value) == [text |-> text, valid |-> valid, value |-> value]

\* one call's outcome: a response, httpx.TimeoutException or another httpx.HTTPError
Responds(status, ctype, body) ==
    [kind |-> "response", status |-> status, ctype |-> ctype, body |-> body]
TimesOut == [kind |-> "timeout", status |-> 0, ctype |-> <<>>, body |-> Body("", FALSE, JNull)]
Fails == [kind |-> "error", status |-> 0, ctype |-> <<>>, body |-> Body("", FALSE, JNull)]

\* httpx.Response.is_success, which raise_for_status tests
IsSuccess(status) == status >= 200 /\ status <= 299

\* response.headers.get("content-type", "").startswith("application/json")
IsJsonContentType(ctype) == Len(ctype) >= 1 /\ ctype[1] = "application/json"

\* response.json(): the parsed body, or ValueError
ResponseJson(body, n) ==
    IF body.valid THEN Return(body.value, n)
    ELSE Raise(PyError("JSONDecodeError", <<"Expecting value: line 1 column 1 (char 0)">>), n)

----------------------------------------------------------------------------
(* app/clients/upstream.py *)

UpstreamClient(name, base_url, default_timeout) ==
    [name |-> name,
     base_url |-> IF TruthyUrl(base_url) THEN Some(RStrip(Val(base_url))) ELSE None,
     default_timeout |-> default_timeout]

\* mutation of UpstreamClient_request: a call that timed out is tried again
UpstreamClient_request_retries(self, path, out) ==
    IF ~TruthyUrl(self.base_url)
    THEN Raise(UpstreamError(self.name, 502, <<self.name, " upstream not configured">>, {}), 0)
    ELSE CASE out.kind = "timeout" ->
                Raise(UpstreamError(self.name, DEFAULT_STATUS, <<self.name, " upstream timeout">>,
                                    {<<"path", path>>}), 2)
           [] out.kind = "error" ->
                Raise(UpstreamError(self.name, DEFAULT_STATUS, <<self.name, " upstream request failed">>,
                                    {<<"path", path>>}), 1)
           [] out.kind = "response" /\ ~IsSuccess(out.status) ->
                Raise(UpstreamError(self.name, out.status,
                                    <<self.name, " upstream returned ", out.status>>,
                                    {<<"path", path>>, <<"body", out.body.text>>}), 1)
           [] out.kind = "response" /\ IsSuccess(out.status) ->
                IF IsJsonContentType(out.ctype)
                THEN ResponseJson(out.body, 1)
                ELSE Return([status_code |-> out.status, content |-> out.body.text,
                             content_type |-> out.ctype], 1)

UpstreamClient_request(self, path, out) ==
    IF ~TruthyUrl(self.base_url)
    THEN Raise(UpstreamError(self.name, 502, <<self.name, " upstream not configured">>, {}), 0)
    ELSE CASE out.kind = "timeout" ->
                Raise(UpstreamError(self.name, DEFAULT_STATUS, <<self.name, " upstream timeout">>,
                                    {<<"path", path>>}), 1)
           [] out.kind = "error" ->
                Raise(UpstreamError(self.name, DEFAULT_STATUS, <<self.name, " upstream request failed">>,
                                    {<<"path", path>>}), 1)
           [] out.kind = "response" /\ ~IsSuccess(out.status) ->
                Raise(UpstreamError(self.name, out.status,
                                    <<self.name, " upstream returned ", out.status>>,
                                    {<<"path", path>>, <<"body", out.body.text>>}), 1)
           [] out.kind = "response" /\ IsSuccess(out.status) ->
                IF IsJsonContentType(out.ctype)
                THEN ResponseJson(out.body, 1)
                ELSE Return([status_code |-> out.status, content |-> out.body.text,
                             content_type |-> out.ctype], 1)

UpstreamClient_proxy_request(self, path, out) ==
    IF ~TruthyUrl(self.base_url)
    THEN Raise(UpstreamError(self.name, 502, <<self.name, " upstream not configured">>, {}), 0)
    ELSE CASE out.kind = "timeout" ->
                Raise(UpstreamError(self.name, DEFAULT_STATUS, <<self.name, " upstream timeout">>,
                                    {<<"path", path>>}), 1)
           [] out.kind = "error" ->
                Raise(UpstreamError(self.name, DEFAULT_STATUS, <<self.name, " upstream request failed">>,
                                    {<<"path", path>>}), 1)
           [] out.kind = "response" /\ ~IsSuccess(out.status) ->
                Raise(UpstreamError(self.name, out.status,
                                    <<self.name, " upstream returned ", out.status>>,
                                    {<<"path", path>>, <<"body", out.body.text>>}), 1)
           [] out.kind = "response" /\ IsSuccess(out.status) ->
                Return([status_code |-> out.status, content |-> out.body.text,
                        content_type |-> out.ctype], 1)

\* timeout = kwargs.pop("timeout", self.default_timeout)
UpstreamClient_request_timeout(self, kwargs) ==
    IF HasKey(kwargs, "timeout") THEN Get(kwargs, "timeout") ELSE Some(self.default_timeout)

\* timeout_value = timeout or self.default_timeout
UpstreamClient_proxy_request_timeout(self, t) ==
    IF t # None /\ Val(t) # 0 THEN t ELSE Some(self.default_timeout)

----------------------------------------------------------------------------
(* app/clients/catalog_client.py *)

CatalogClient(base_url, default_timeout) ==
    [base_url |-> IF TruthyUrl(base_url) THEN Some(RStrip(Val(base_url))) ELSE None,
     default_timeout |-> default_timeout]

\* the shape rules applied to a parsed payload
CatalogAgents(payload) ==
    IF payload.t = "dict" /\ HasKey(payload.fields, "agents")
    THEN Or(DictGet(payload, "agents"), JList(<<>>))
    ELSE IF payload.t = "list" THEN payload ELSE JList(<<>>)

CatalogClient_list_agents(self, out) ==
    IF ~TruthyUrl(self.base_url)
    THEN Raise(UpstreamError("operator", 502, <<"operator upstream not configured">>, {}), 0)
    ELSE LET url == Val(self.base_url) \o <<"/agents">> IN
         CASE out.kind = "timeout" ->
                Raise(UpstreamError("operator", 504, <<"operator upstream timeout">>,
                                    {<<"url", url>>}), 1)
           [] out.kind = "error" ->
                Raise(UpstreamError("operator", DEFAULT_STATUS, <<"operator upstream unavailable">>,
                                    {<<"url", url>>}), 1)
           [] out.kind = "response" /\ ~IsSuccess(out.status) ->
                Raise(UpstreamError("operator", out.status, <<"operator upstream returned error">>,
                                    {<<"body", out.body.text>>}), 1)
           [] out.kind = "response" /\ IsSuccess(out.status) ->
                LET parsed == ResponseJson(out.body, 1) IN
                IF parsed.raised
                THEN Raise(UpstreamError("operator", 502,
                                         <<"operator upstream returned invalid JSON">>, {}), 1)
                ELSE Return([agents |-> CatalogAgents(parsed.value),
                             source |-> self.base_url], 1)

----------------------------------------------------------------------------
(* app/clients/operator_client.py *)

OperatorClient(base_url, default_timeout) ==
    [base_url |-> IF TruthyUrl(base_url) THEN Some(RStrip(Val(base_url))) ELSE None,
     default_timeout |-> default_timeout]

\* body.get("jobId") or body.get("id") or body.get("job_id"), then: or "pending"
OperatorJobId(body) ==
    LET job_id == IF body.t = "dict"
                  THEN Or(Or(DictGet(body, "jobId"), DictGet(body, "id")), DictGet(body, "job_id"))
                  ELSE JNull
    IN Or(job_id, JStr(<<"pending">>))

OperatorClient_enqueue_install(self, pack_id, out) ==
    IF ~TruthyUrl(self.base_url)
    THEN Raise(UpstreamError("operator", 502, <<"operator upstream not configured">>, {}), 0)
    ELSE LET url == Val(self.base_url) \o <<"/packs/", pack_id, "/install">> IN
         CASE out.kind = "timeout" ->
                Raise(UpstreamError("operator", 504, <<"operator upstream timeout">>, {}), 1)
           [] out.kind = "error" ->
                Raise(UpstreamError("operator", DEFAULT_STATUS, <<"operator upstream unavailable">>,
                                    {<<"url", url>>}), 1)
           [] out.kind = "response" /\ ~IsSuccess(out.status) ->
                Raise(UpstreamError("operator", out.status, <<"operator upstream returned error">>,
                                    {<<"body", out.body.text>>}), 1)
           [] out.kind = "response" /\ IsSuccess(out.status) ->
                LET parsed == IF IsJsonContentType(out.ctype)
                              THEN ResponseJson(out.body, 1)
                              ELSE Return(JDict({}), 1)
                IN
                IF parsed.raised
                THEN Raise(UpstreamError("operator", 502,
                                         <<"operator upstream returned invalid JSON">>, {}), 1)
                ELSE Return([jobId |-> OperatorJobId(parsed.value),
                             operatorUrl |-> self.base_url], 1)

----------------------------------------------------------------------------
(* app/clients/pack_index_client.py *)

PACK_PREFIX == "blackroad-os-pack-"

PackIndexClient(index_url, default_timeout) ==
    [index_url |-> IF TruthyUrl(index_url) THEN Some(RStrip(Val(index_url))) ELSE None,
     default_timeout |-> default_timeout]

\* name.startswith(PACK_PREFIX)
HasPackPrefix(name) == Len(name) >= 1 /\ name[1] = PACK_PREFIX

\* type(x).__name__
PyTypeName(j) == IF j.t = "null" THEN "NoneType" ELSE j.t

\* the items of the payload: a dict's list under packs, packages or items, or a bare list
PackItems(payload) ==
    IF payload.t = "dict"
    THEN Or(Or(Or(DictGet(payload, "packs"), DictGet(payload, "packages")),
               DictGet(payload, "items")), JList(<<>>))
    ELSE IF payload.t = "list" THEN payload ELSE JList(<<>>)

\* the body of the loop for one item that is a dict and passes the filter
PackOf(item, name, index_url) ==
    [id |-> JStr(Tail(name.s)),
     name |-> name,
     version |-> Or(Or(DictGet(item, "version"), DictGet(item, "tag")), JStr(<<"latest">>)),
     description |-> DictGet(item, "description"),
     source |-> Or(DictGet(item, "source"), JStr(index_url))]

\* for item in items: ..., the packs collected so far being acc
RECURSIVE PackLoop(_, _, _)
PackLoop(items, acc, index_url) ==
    IF items = <<>> THEN Return(acc, 1)
    ELSE LET item == Head(items)
             name == Or(DictGet(item, "name"), DictGet(item, "id"))
         IN
         IF item.t # "dict" THEN PackLoop(Tail(items), acc, index_url)
         ELSE IF ~Truthy(name) THEN PackLoop(Tail(items), acc, index_url)
         ELSE IF name.t # "str"
              THEN Raise(PyError("AttributeError",
                                 <<"'", PyTypeName(name), "' object has no attribute 'startswith'">>), 1)
         ELSE IF ~HasPackPrefix(name.s) THEN PackLoop(Tail(items), acc, index_url)
         ELSE PackLoop(Tail(items), Append(acc, PackOf(item, name, index_url)), index_url)

PackIndexClient_list_packs(self, out) ==
    IF ~TruthyUrl(self.index_url)
    THEN Raise(UpstreamError("packs", 502, <<"PACK_INDEX_URL not configured">>, {}), 0)
    ELSE CASE out.kind = "timeout" ->
                Raise(UpstreamError("packs", 504, <<"Pack index timeout">>, {}), 1)
           [] out.kind = "error" ->
                Raise(UpstreamError("packs", DEFAULT_STATUS, <<"Pack index unavailable">>, {}), 1)
           [] out.kind = "response" /\ ~IsSuccess(out.status) ->
                Raise(UpstreamError("packs", out.status, <<"Pack index returned error">>, {}), 1)
           [] out.kind = "response" /\ IsSuccess(out.status) ->
                LET parsed == ResponseJson(out.body, 1) IN
                IF parsed.raised
                THEN Raise(UpstreamError("packs", 502,
                                         <<"Pack index returned invalid JSON">>, {}), 1)
                ELSE LET items == PackItems(parsed.value) IN
                     CASE items.t = "list" -> PackLoop(items.items, <<>>, Val(self.index_url))
                       [] items.t \in {"str", "dict"} -> Return(<<>>, 1)
                       [] OTHER ->
                            Raise(PyError("TypeError",
                                          <<"'", PyTypeName(items), "' object is not iterable">>), 1)

----------------------------------------------------------------------------
(* app/config.py: the settings the dependencies read *)

\* Settings.allowed_api_keys: api_keys, then public_api_key, empties removed
allowed_api_keys(st) ==
    LET keys == st.api_keys \o (IF TruthyStr(st.public_api_key)
                                THEN <<Val(st.public_api_key)>> ELSE <<>>)
    IN SelectSeq(keys, LAMBDA key : key # "")

\* Settings.request_timeout_seconds, kept in milliseconds: max(request_timeout_ms, 0)
request_timeout(st) == IF st.request_timeout_ms > 0 THEN st.request_timeout_ms ELSE 0

----------------------------------------------------------------------------
(* app/middleware/auth.py *)

Unauthorized ==
    HTTPException(401, {<<"code", "UNAUTHORIZED">>,
                        <<"message", <<"Invalid or missing API key.">>>>}, TRUE)

\* An Authorization header is [scheme, sep, rest]: the text before its first
\* space, whether it has a space, and the text after that space.
\* authorization.startswith("Bearer ")
StartsWithBearer(authorization) ==
    Val(authorization).scheme = "Bearer" /\ Val(authorization).sep

\* authorization and ...: a header that is absent or empty is falsy
TruthyAuthorization(authorization) ==
    authorization # None
    /\ (Val(authorization).scheme # "" \/ Val(authorization).sep)

\* mutation of api_key_auth: the Bearer token is preferred to x-api-key
api_key_auth_bearer_first(x_api_key, authorization, api_keys) ==
    IF api_keys = <<>> THEN Raise(Unauthorized, 0)
    ELSE LET provided_key ==
                 IF TruthyAuthorization(authorization) /\ StartsWithBearer(authorization)
                 THEN Some(Val(authorization).rest)
                 ELSE x_api_key
         IN
         IF TruthyStr(provided_key)
            /\ \E i \in 1..Len(api_keys) : api_keys[i] = Val(provided_key)
         THEN Return(TRUE, 0)
         ELSE Raise(Unauthorized, 0)

\* mutation of api_key_auth: a supplied key is not compared with the configured ones
api_key_auth_any_key(x_api_key, authorization, api_keys) ==
    IF api_keys # <<>> /\ TruthyStr(x_api_key) THEN Return(TRUE, 0)
    ELSE Raise(Unauthorized, 0)

api_key_auth(x_api_key, authorization, api_keys) ==
    IF api_keys = <<>> THEN Raise(Unauthorized, 0)
    ELSE LET provided_key ==
                 IF ~TruthyStr(x_api_key) /\ TruthyAuthorization(authorization)
                    /\ StartsWithBearer(authorization)
                 THEN Some(Val(authorization).rest)
                 ELSE x_api_key
         IN
         IF TruthyStr(provided_key)
            /\ \E i \in 1..Len(api_keys) : api_keys[i] = Val(provided_key)
         THEN Return(TRUE, 0)
         ELSE Raise(Unauthorized, 0)

----------------------------------------------------------------------------
(* app/rate_limiting.py: the limiter *)

\* "100/minute": the amount of the limit, of the decorators and of default_limits
RATE_LIMIT == 100

\* request["path"]
RequestPath(r) ==
    IF r.route = "/v1/packs/{id}/install"
    THEN <<"/v1/packs/", r.id, "/install">>
    ELSE <<r.route>>

rate_limit_key(r) == IF TruthyStr(r.x_br_key) THEN Val(r.x_br_key) ELSE r.client_host

\* the counter a request is counted on: its key and the path it asks for
Scope(r) == <<rate_limit_key(r), RequestPath(r)>>

Count(st, sc) == IF sc \in DOMAIN st THEN st[sc].count ELSE 0

\* mutation of Hit: the count read before the increment is compared
Hit_checks_before_increment(st, sc) ==
    LET entry == IF sc \in DOMAIN st
                 THEN [count |-> st[sc].count + 1, ttl |-> st[sc].ttl]
                 ELSE [count |-> 1, ttl |-> MinuteTicks]
    IN [storage |-> [x \in DOMAIN st \cup {sc} |-> IF x = sc THEN entry ELSE st[x]],
        allowed |-> entry.count - 1 <= RATE_LIMIT]

\* One hit on the limit. The Limiter is built without a strategy, which leaves
\* the fixed window: a counter starts its minute at its first hit, every hit
\* increments it, and the hit passes while the counter is within the amount.
Hit(st, sc) ==
    LET entry == IF sc \in DOMAIN st
                 THEN [count |-> st[sc].count + 1, ttl |-> st[sc].ttl]
                 ELSE [count |-> 1, ttl |-> MinuteTicks]
    IN [storage |-> [x \in DOMAIN st \cup {sc} |-> IF x = sc THEN entry ELSE st[x]],
        allowed |-> entry.count <= RATE_LIMIT]

RateLimitExceeded ==
    [type |-> "RateLimitExceeded", status_code |-> 429,
     detail |-> <<"100 per 1 minute">>, detail_is_dict |-> FALSE]

\* the routes whose handler carries @limiter.limit
DecoratedRoutes == {"/v1/agents", "/v1/packs", "/v1/packs/{id}/install"}

----------------------------------------------------------------------------
(* app/errors.py and the responses *)

JSONResponse(status_code, content) ==
    [status |-> status_code, body |-> content, headers |-> {}]

SetHeader(response, name, value) ==
    [response EXCEPT !.headers = {h \in @ : h[1] # name} \cup {<<name, value>>}]

\* mutation of build_error_response: details is stored even when it is empty
build_error_response_with_details(code, message, request_id, details) ==
    [error |-> [code |-> code, message |-> message, details |-> details]
               @@ (IF TruthyStr(request_id) THEN [requestId |-> Val(request_id)] ELSE <<>>)]

build_error_response(code, message, request_id, details) ==
    [error |-> [code |-> code, message |-> message]
               @@ (IF details # {} THEN [details |-> details] ELSE <<>>)
               @@ (IF TruthyStr(request_id) THEN [requestId |-> Val(request_id)] ELSE <<>>)]

\* app/main.py: the handler registered for RateLimitExceeded
rate_limit_handler(request_id, exc) ==
    JSONResponse(429,
        build_error_response("RATE_LIMIT_EXCEEDED",
                             IF exc.detail # <<>> THEN exc.detail ELSE <<"Too many requests">>,
                             request_id, {}))

----------------------------------------------------------------------------
(* app/generated/router.py: the route handlers with their dependencies *)

\* a handler's outcome: what it returned or raised, and the limiter's storage after it
Handled(res, st) == [res |-> res, storage |-> st]

get_catalog_client(st) ==
    CatalogClient(IF TruthyUrl(st.operator_url) THEN st.operator_url ELSE None,
                  request_timeout(st))

\* mutation of get_operator_client: built on the pack index URL
get_operator_client_on_pack_index(st) ==
    OperatorClient(IF TruthyUrl(st.pack_index_url) THEN st.pack_index_url ELSE None,
                   request_timeout(st))

get_operator_client(st) ==
    OperatorClient(IF TruthyUrl(st.operator_url) THEN st.operator_url ELSE None,
                   request_timeout(st))

get_pack_index_client(st) ==
    PackIndexClient(IF TruthyUrl(st.pack_index_url) THEN st.pack_index_url ELSE None,
                    request_timeout(st))

\* _error(code, message): an ErrorResponse returned as the handler's value
ErrorResponse(code, message) ==
    [ok |-> FALSE, error |-> [code |-> code, message |-> message]]

\* list_agents, past its dependencies and its limit
list_agents(r, cfg, out) ==
    With(CatalogClient_list_agents(get_catalog_client(cfg), out), LAMBDA catalog :
        IF catalog.raised THEN catalog
        ELSE Return(JSONResponse(200, [ok |-> TRUE, agents |-> catalog.value.agents,
                                       source |-> cfg.operator_url]), catalog.sent))

\* list_packs, past its dependencies and its limit
list_packs(r, cfg, out) ==
    With(PackIndexClient_list_packs(get_pack_index_client(cfg), out), LAMBDA packs :
        IF packs.raised THEN packs
        ELSE Return(JSONResponse(200, [ok |-> TRUE, packs |-> packs.value,
                                       retrievedAt |-> "utcnow"]), packs.sent))

\* install_pack, past its dependencies and its limit; the route's status_code is 202
install_pack(r, cfg, out) ==
    IF r.id = ""
    THEN Return(JSONResponse(202, ErrorResponse("INVALID_PACK", <<"Pack id is required">>)), 0)
    ELSE With(OperatorClient_enqueue_install(get_operator_client(cfg), r.id, out),
              LAMBDA enqueued :
                 IF enqueued.raised THEN enqueued
                 ELSE Return(JSONResponse(202, [ok |-> TRUE, jobId |-> enqueued.value.jobId,
                                                operatorUrl |-> enqueued.value.operatorUrl]),
                             enqueued.sent))

----------------------------------------------------------------------------
(* app/routes/v1/shared.py, app/routes/v1/core.py *)

HOP_BY_HOP_HEADERS ==
    {"host", "content-length", "accept-encoding", "connection", "keep-alive",
     "proxy-authenticate", "proxy-authorization", "te", "trailers", "transfer-encoding",
     "upgrade"}

\* str.lower() on the header names a request of the model may carry
Lower(key) ==
    CASE key = "Host" -> "host"
      [] key = "TE" -> "te"
      [] key = "Accept-Encoding" -> "accept-encoding"
      [] key = "X-Tag" -> "x-tag"
      [] OTHER -> key

\* {key: value for key, value in items}: of the items with one key the last stays
DictOf(items) ==
    {items[i] : i \in {j \in DOMAIN items :
                          \A k \in DOMAIN items : k > j => items[k][1] # items[j][1]}}

\* request.headers.get(name, ""): the value of the first header of that name
HeaderGet(headers, name) ==
    IF \E i \in DOMAIN headers : headers[i][1] = name
    THEN headers[CHOOSE i \in DOMAIN headers :
                    /\ headers[i][1] = name
                    /\ \A j \in DOMAIN headers : headers[j][1] = name => i <= j][2]
    ELSE ""

\* "application/json" in content_type.lower()
NamesJson(content_type) == content_type = "application/json"

extract_proxy_payload(request) ==
    LET raw_body == request.body
        content_type == HeaderGet(request.headers, "content-type")
        parses == raw_body # None /\ NamesJson(content_type) /\ Val(raw_body).valid
    IN [params |-> request.params,
        headers |-> DictOf(SelectSeq(request.headers,
                                     LAMBDA h : Lower(h[1]) \notin HOP_BY_HOP_HEADERS)),
        body |-> IF parses THEN None ELSE raw_body,
        json |-> IF parses /\ Val(raw_body).value # JNull
                 THEN Some(Val(raw_body).value) ELSE None]

\* the httpx.Response proxy_request returned, with the headers the upstream sent
UpstreamResponse(value, headers) ==
    [status_code |-> value.status_code, content |-> value.content,
     headers |-> (IF value.content_type = <<>> THEN <<>>
                  ELSE <<<<"content-type", value.content_type>>>>) \o headers]

\* Response(content, status_code, headers, media_type): the Response adds the
\* length of its own content
build_proxy_response(upstream_response) ==
    [status |-> upstream_response.status_code,
     body |-> upstream_response.content,
     headers |-> DictOf(SelectSeq(upstream_response.headers,
                                  LAMBDA h : Lower(h[1]) \in {"content-type"}))
                 \cup {<<"content-length", <<"len", upstream_response.content>>>>}]

build_core_client(st) ==
    UpstreamClient("core", IF TruthyUrl(st.core_api_url) THEN st.core_api_url ELSE None,
                   request_timeout(st))

\* proxy_core, past its dependencies: the upstream answers out with the headers
\* upstream_headers
proxy_core(request, cfg, out, upstream_headers) ==
    With(UpstreamClient_proxy_request(build_core_client(cfg), request.full_path, out),
         LAMBDA upstream_response :
            IF upstream_response.raised THEN upstream_response
            ELSE Return(build_proxy_response(UpstreamResponse(upstream_response.value,
                                                              upstream_headers)),
                        upstream_response.sent))

\* app/main.py: health
health == Return(JSONResponse(200, [status |-> "ok", uptime |-> "uptime"]), 0)

\* A decorated route: the framework resolves Depends(api_key_auth) before it
\* calls the handler, and the @limiter.limit wrapper checks the limit when the
\* handler is called, before its body runs.
DecoratedRoute(r, cfg, st, out) ==
    With(api_key_auth(r.x_api_key, r.authorization, allowed_api_keys(cfg)), LAMBDA auth :
        IF auth.raised THEN Handled(auth, st)
        ELSE With(Hit(st, Scope(r)), LAMBDA hit :
            IF ~hit.allowed THEN Handled(Raise(RateLimitExceeded, 0), hit.storage)
            ELSE Handled(CASE r.route = "/v1/agents" -> list_agents(r, cfg, out)
                           [] r.route = "/v1/packs" -> list_packs(r, cfg, out)
                           [] r.route = "/v1/packs/{id}/install" -> install_pack(r, cfg, out),
                         hit.storage)))

\* the catch-all proxy routes the gateway binds
ProxyRoutes == {"/v1/core/{full_path}"}

\* app/routes/v1/router.py: the core router is included with
\* Depends(api_key_auth), and its route carries no limit of its own
ProxyRoute(r, cfg, st, out) ==
    With(api_key_auth(r.x_api_key, r.authorization, allowed_api_keys(cfg)), LAMBDA auth :
        IF auth.raised THEN Handled(auth, st)
        ELSE Handled(proxy_core(r, cfg, out, <<>>), st))

\* app.add_exception_handler(RateLimitExceededType, rate_limit_handler): the one
\* handler the application registers, applied to what the routes raise
Routes(r, cfg, st, out, request_id) ==
    With(IF r.route \in DecoratedRoutes THEN DecoratedRoute(r, cfg, st, out)
         ELSE IF r.route \in ProxyRoutes THEN ProxyRoute(r, cfg, st, out)
         ELSE Handled(health, st),
         LAMBDA h :
            IF h.res.raised /\ h.res.exc.type = "RateLimitExceeded"
            THEN Handled(Return(rate_limit_handler(request_id, h.res.exc), h.res.sent),
                         h.storage)
            ELSE h)

----------------------------------------------------------------------------
(* app/main.py: the middleware, innermost first *)

\* SlowAPIMiddleware: a route with a decorator is left to its decorator; any
\* other route is counted on default_limits, and an exceeded limit is answered
\* by the registered handler without calling the route
SlowAPIMiddleware_dispatch(r, cfg, st, out, request_id) ==
    IF r.route \in DecoratedRoutes THEN Routes(r, cfg, st, out, request_id)
    ELSE With(Hit(st, Scope(r)), LAMBDA hit :
            IF ~hit.allowed
            THEN Handled(Return(rate_limit_handler(request_id, RateLimitExceeded), 0),
                         hit.storage)
            ELSE Routes(r, cfg, hit.storage, out, request_id))

\* app/middleware/response_headers.py
ResponseHeaderMiddleware_dispatch(r, cfg, st, out, request_id) ==
    With(SlowAPIMiddleware_dispatch(r, cfg, st, out, request_id), LAMBDA inner :
        IF inner.res.raised THEN inner
        ELSE With(SetHeader(inner.res.value, "X-API-Version", cfg.api_version),
                  LAMBDA versioned :
            Handled(Return(IF TruthyUrl(cfg.operator_url)
                           THEN SetHeader(versioned, "X-Agent-Operator-URL",
                                          Val(cfg.operator_url))
                           ELSE versioned,
                           inner.res.sent),
                    inner.storage)))

\* str(uuid.uuid4()), n ids having been drawn before: an id not drawn before
uuid4(n) == "uuid-" \o ToString(n + 1)

\* mutation of RequestId: the inbound header is not read
RequestId_generated(r, uuid) == Some(uuid)

\* app/middleware/request_id.py: the id it stores in request.state, uuid being
\* what uuid4 returns if it is called
RequestId(r, uuid) == IF TruthyStr(r.x_request_id) THEN r.x_request_id ELSE Some(uuid)

RequestIdMiddleware_dispatch(r, cfg, st, out, uuid) ==
    With(ResponseHeaderMiddleware_dispatch(r, cfg, st, out, RequestId(r, uuid)), LAMBDA inner :
        IF inner.res.raised THEN inner
        ELSE Handled(Return(SetHeader(inner.res.value, "X-Request-ID",
                                      Val(RequestId(r, uuid))),
                            inner.res.sent), inner.storage))

\* dict.get on the detail of an HTTPException: None when the key is absent
DetailGet(detail, k) == IF HasKey(detail, k) THEN Some(Get(detail, k)) ELSE None

\* mutation of ErrorResponseFor: HTTPException is tested before its subclass
\* UpstreamError, whose branch is then never taken
ErrorResponseFor_http_first(exc, request_id) ==
    IF IsHTTPException(exc)
    THEN JSONResponse(exc.status_code,
             build_error_response("BAD_REQUEST", exc.detail, request_id, {}))
    ELSE JSONResponse(500, build_error_response("INTERNAL_ERROR", exc.msg, request_id, {}))

\* app/middleware/errors.py: the response for an exception call_next raised
ErrorResponseFor(exc, request_id) ==
    IF IsUpstreamError(exc)
    THEN JSONResponse(exc.status_code,
             build_error_response("UPSTREAM_ERROR", exc.detail, request_id,
                                  Merge({<<"source", exc.source>>}, exc.details)))
    ELSE IF IsHTTPException(exc)
    THEN LET detail == IF exc.detail_is_dict THEN exc.detail ELSE {}
             code == IF detail # {} THEN DetailGet(detail, "code") ELSE Some("BAD_REQUEST")
             message == IF detail # {} THEN DetailGet(detail, "message") ELSE Some(exc.detail)
             details == IF detail # {} /\ HasKey(detail, "details")
                        THEN Get(detail, "details") ELSE {}
         IN JSONResponse(exc.status_code,
                build_error_response(IF TruthyStr(code) THEN Val(code) ELSE "BAD_REQUEST",
                                     IF TruthyUrl(message) THEN Val(message)
                                     ELSE <<"Request error">>,
                                     request_id, details))
    ELSE JSONResponse(500,
             build_error_response("INTERNAL_ERROR",
                                  IF exc.msg # <<>> THEN exc.msg
                                  ELSE <<"Internal server error">>,
                                  request_id, {}))

\* ErrorHandlerMiddleware.dispatch, the outermost middleware. request.state is
\* shared along the chain, so the id RequestIdMiddleware stored is read here.
ErrorHandlerMiddleware_dispatch(r, cfg, st, out, uuid) ==
    With(RequestIdMiddleware_dispatch(r, cfg, st, out, uuid), LAMBDA inner :
        IF inner.res.raised
        THEN [response |-> ErrorResponseFor(inner.res.exc, RequestId(r, uuid)),
              caught |-> Some(inner.res.exc), request_id |-> RequestId(r, uuid),
              storage |-> inner.storage, sent |-> inner.res.sent]
        ELSE [response |-> inner.res.value, caught |-> None,
              request_id |-> RequestId(r, uuid),
              storage |-> inner.storage, sent |-> inner.res.sent])

----------------------------------------------------------------------------
(* The inputs: configurations, requests, upstream behaviours *)

OperatorUrl == <<"https://operator.example.com", "/">>
PackIndexUrl == <<"https://packs.example.com">>
CoreUrl == <<"https://core.example.com">>

Config(api_keys, operator_url, pack_index_url) ==
    [api_keys |-> api_keys, public_api_key |-> None, operator_url |-> operator_url,
     pack_index_url |-> pack_index_url, core_api_url |-> Some(CoreUrl),
     request_timeout_ms |-> 10000, api_version |-> "1.0.0"]

FullConfig == Config(<<"secret">>, Some(OperatorUrl), Some(PackIndexUrl))

Configs ==
    {FullConfig,
     Config(<<>>, Some(OperatorUrl), Some(PackIndexUrl)),
     Config(<<"secret">>, None, None)}

Agent1 == JDict({<<"id", JStr(<<"a1">>)>>, <<"name", JStr(<<"Agent One">>)>>})
PackAlpha == JDict({<<"name", JStr(<<PACK_PREFIX, "alpha">>)>>, <<"version", JStr(<<"1.0.0">>)>>})
PackOther == JDict({<<"name", JStr(<<"other-pack">>)>>})
PackNumbered == JDict({<<"id", JInt(7)>>})
PackListed == JDict({<<"name", JList(<<JStr(<<"x">>)>>)>>})
PackTagged == JDict({<<"name", JStr(<<PACK_PREFIX, "beta">>)>>, <<"tag", JStr(<<"v2">>)>>})
PackById == JDict({<<"id", JStr(<<PACK_PREFIX, "gamma">>)>>})

Json == <<"application/json">>
Text == <<"text/plain">>

BodyAgents == Body("[{id: a1}]", TRUE, JList(<<Agent1>>))
BodyAgentsDict == Body("{agents: [{id: a1}]}", TRUE, JDict({<<"agents", JList(<<Agent1>>)>>}))
BodyAgentsText == Body("{agents: none}", TRUE, JDict({<<"agents", JStr(<<"none">>)>>}))
BodyNumber == Body("7", TRUE, JInt(7))
BodyPacks == Body("{packs: [alpha, other]}", TRUE, JDict({<<"packs", JList(<<PackAlpha, PackOther>>)>>}))
BodyPackNumbered == Body("[{id: 7}]", TRUE, JList(<<PackNumbered>>))
BodyPackListed == Body("[{name: [x]}]", TRUE, JList(<<PackListed>>))
BodyPackItems == Body("{items: [beta, gamma, other]}", TRUE,
                      JDict({<<"items", JList(<<PackById, PackOther, PackAlpha>>)>>}))
BodyPackTagged == Body("{packages: [beta]}", TRUE, JDict({<<"packages", JList(<<PackTagged>>)>>}))
BodyJob == Body("{jobId: job-1}", TRUE, JDict({<<"jobId", JStr(<<"job-1">>)>>}))
BodyJobById == Body("{id: job-2}", TRUE, JDict({<<"id", JStr(<<"job-2">>)>>}))
BodyJobEmpty == Body("{jobId: '', id: job-2}", TRUE,
                     JDict({<<"jobId", JStr(<<>>)>>, <<"id", JStr(<<"job-2">>)>>}))
BodyNull == Body("null", TRUE, JNull)
BodyNotJson == Body("not json", FALSE, JNull)
BodyBoom == Body("boom", FALSE, JNull)
BodyErrorJson == Body("{error: boom}", TRUE, JDict({<<"error", JStr(<<"boom">>)>>}))

\* what an upstream may do on one call
Outcomes ==
    {TimesOut, Fails,
     Responds(500, Text, BodyBoom), Responds(404, Json, BodyErrorJson),
     Responds(302, Text, BodyBoom),
     Responds(200, Json, BodyAgents), Responds(200, Json, BodyAgentsDict),
     Responds(200, Json, BodyAgentsText), Responds(200, Json, BodyNumber),
     Responds(200, Json, BodyPacks), Responds(200, Json, BodyPackNumbered),
     Responds(200, Json, BodyPackListed),
     Responds(200, Json, BodyPackItems), Responds(200, Json, BodyPackTagged),
     Responds(200, Json, BodyJob), Responds(201, Text, BodyJob),
     Responds(200, Json, BodyJobById), Responds(200, Json, BodyJobEmpty),
     Responds(200, Json, BodyNotJson), Responds(200, Text, BodyNotJson)}

\* what the upstream of a route may do on the gateway's call
RouteOutcomes(route) ==
    {TimesOut, Responds(500, Text, BodyBoom), Responds(200, Json, BodyNotJson)}
    \cup (CASE route = "/v1/agents" -> {Responds(200, Json, BodyAgents)}
            [] route = "/v1/packs" -> {Responds(200, Json, BodyPacks),
                                       Responds(200, Json, BodyPackNumbered),
                                       Responds(200, Json, BodyPackListed)}
            [] route = "/v1/packs/{id}/install" -> {Responds(200, Json, BodyJob)}
            [] OTHER -> {})

Request(route, id, x_api_key, authorization, x_br_key, x_request_id) ==
    [route |-> route, id |-> id, x_api_key |-> x_api_key, authorization |-> authorization,
     x_br_key |-> x_br_key, x_request_id |-> x_request_id, client_host |-> "127.0.0.1"]

Bearer(token) == Some([scheme |-> "Bearer", sep |-> TRUE, rest |-> token])

\* the credentials a caller may present: x-api-key and Authorization
Credentials ==
    {<<None, None>>, <<Some("secret"), None>>, <<Some("wrong"), None>>,
     <<None, Bearer("secret")>>}

Requests ==
    {Request(route, IF route = "/v1/packs/{id}/install" THEN "alpha" ELSE "",
             c[1], c[2], b, None) :
        route \in DecoratedRoutes \cup {"/health"},
        c \in Credentials,
        b \in {None, Some("secret")}}

\* requests with and without an X-Request-ID header, authenticated or not
IdRequests ==
    {Request(route, "", k, None, None, x) :
        route \in {"/v1/agents", "/health"},
        k \in {None, Some("secret")},
        x \in {None, Some(""), Some("abc"), Some("xyz")}}

\* the requests of a flood on one counter: with and without the key api_key_auth reads
\* a GET on the catch-all proxy route of the core upstream
ProxiedGet(x_api_key, x_br_key, x_request_id) ==
    [route |-> "/v1/core/{full_path}", id |-> "", x_api_key |-> x_api_key,
     authorization |-> None, x_br_key |-> x_br_key, x_request_id |-> x_request_id,
     client_host |-> "127.0.0.1", method |-> "GET", full_path |-> "things"]

FloodRequests ==
    {Request("/v1/agents", "", k, None, Some("secret"), Some("flood")) :
        k \in {None, Some("secret")}}
    \cup {ProxiedGet(Some("secret"), None, Some("flood"))}
    \cup {Request("/health", "", None, None, None, Some("flood"))}

\* the base URLs a client may be built with
BaseUrls == {None, Some(<<>>), Some(<<"/">>), Some(OperatorUrl), Some(PackIndexUrl)}

ClientOps == {"UpstreamClient.request", "UpstreamClient.proxy_request",
              "CatalogClient.list_agents", "OperatorClient.enqueue_install",
              "PackIndexClient.list_packs"}

----------------------------------------------------------------------------
(* State and actions *)

EmptyMap == [x \in {} |-> 0]
NoRequest == [route |-> "none"]
NoOutcome == [kind |-> "none"]
NoResponse == [status |-> 0, body |-> <<>>, headers |-> {}]
NoOp == [name |-> "none"]
NoPayload == [headers |-> {}]
NoTask == [busy |-> FALSE]
\* no upstream call was issued; a call was issued with the timeout t, in
\* milliseconds, None being httpx's "no timeout"
NotIssued == [given |-> FALSE, timeout |-> None]
Handed(t) == [given |-> TRUE, timeout |-> t]
NoResult == [raised |-> FALSE, value |-> <<>>, sent |-> 0]

\* the state after start-up, the settings being one of configs
InitWith(configs) ==
    /\ settings \in configs
    /\ storage = EmptyMap
    /\ arrivals = EmptyMap
    /\ admitted = EmptyMap
    /\ req = NoRequest
    /\ upstream = NoOutcome
    /\ caught = None
    /\ state_request_id = None
    /\ generated = <<>>
    /\ resp = NoResponse
    /\ op = NoOp
    /\ result = NoResult
    /\ sent = 0
    /\ forwarded = NoPayload
    /\ timeout = NotIssued
    /\ inflight = [i \in 1..MaxInflight |-> NoTask]

Init == InitWith(Configs)

Arrived(sc) == IF sc \in DOMAIN arrivals THEN arrivals[sc] ELSE 0

\* the requests received since the last tick, on all counters
RECURSIVE Total(_, _)
Total(f, S) ==
    IF S = {} THEN 0
    ELSE LET x == CHOOSE y \in S : TRUE IN f[x] + Total(f, S \ {x})

\* the limit counted the request and let it through
LetThrough(before, after, sc) ==
    Count(after, sc) = Count(before, sc) + 1 /\ Count(after, sc) <= RATE_LIMIT

Recent(sc) == IF sc \in DOMAIN admitted THEN admitted[sc] ELSE [i \in 1..MinuteTicks |-> 0]

\* the gateway answers one inbound request, its upstream behaving as out
HandleRequest(r, out) ==
    \E answer \in {ErrorHandlerMiddleware_dispatch(r, settings, storage, out,
                                                    uuid4(Len(generated)))} :
    /\ req' = r
    /\ state_request_id' = answer.request_id
    /\ generated' = IF TruthyStr(r.x_request_id) THEN generated
                    ELSE Append(generated, uuid4(Len(generated)))
    /\ upstream' = out
    /\ caught' = answer.caught
    /\ resp' = answer.response
    /\ storage' = answer.storage
    /\ sent' = answer.sent
    /\ arrivals' = [x \in DOMAIN arrivals \cup {Scope(r)} |->
                        IF x = Scope(r) THEN Arrived(x) + 1 ELSE arrivals[x]]
    /\ admitted' = IF LetThrough(storage, answer.storage, Scope(r))
                   THEN [x \in DOMAIN admitted \cup {Scope(r)} |->
                            IF x = Scope(r)
                            THEN [Recent(x) EXCEPT ![1] = @ + 1] ELSE admitted[x]]
                   ELSE admitted
    /\ timeout' = IF answer.sent = 0 THEN NotIssued
                  ELSE Handed(Some(request_timeout(settings)))
    /\ UNCHANGED <<settings, op, result, forwarded, inflight>>

\* one operation of one client, called directly with the keyword arguments
\* kwargs, the client built with the timeout of the settings
CallClient(name, base_url, out, kwargs) ==
    /\ op' = [name |-> name, base_url |-> base_url, out |-> out, kwargs |-> kwargs]
    /\ result' =
         CASE name = "UpstreamClient.request" ->
                UpstreamClient_request(UpstreamClient("core", base_url,
                                                      request_timeout(settings)), "/ping", out)
           [] name = "UpstreamClient.proxy_request" ->
                UpstreamClient_proxy_request(UpstreamClient("agents", base_url,
                                                            request_timeout(settings)),
                                             "/ping", out)
           [] name = "CatalogClient.list_agents" ->
                CatalogClient_list_agents(CatalogClient(base_url, request_timeout(settings)),
                                          out)
           [] name = "OperatorClient.enqueue_install" ->
                OperatorClient_enqueue_install(OperatorClient(base_url,
                                                              request_timeout(settings)),
                                               "alpha", out)
           [] name = "PackIndexClient.list_packs" ->
                PackIndexClient_list_packs(PackIndexClient(base_url,
                                                           request_timeout(settings)), out)
    /\ sent' = result'.sent
    /\ timeout' =
         IF result'.sent = 0 THEN NotIssued
         ELSE Handed(CASE name = "UpstreamClient.request" ->
                            UpstreamClient_request_timeout(
                                UpstreamClient("core", base_url, request_timeout(settings)),
                                kwargs)
                       [] name = "UpstreamClient.proxy_request" ->
                            UpstreamClient_proxy_request_timeout(
                                UpstreamClient("agents", base_url, request_timeout(settings)),
                                IF HasKey(kwargs, "timeout") THEN Get(kwargs, "timeout")
                                ELSE None)
                       [] OTHER -> Some(request_timeout(settings)))
    /\ UNCHANGED <<settings, storage, arrivals, admitted, req, upstream, caught,
                   state_request_id, generated, resp, forwarded, inflight>>

\* a clock tick: the counters age, and those whose minute is over are dropped
Tick ==
    /\ storage' = [x \in {y \in DOMAIN storage : storage[y].ttl > 1} |->
                      [count |-> storage[x].count, ttl |-> storage[x].ttl - 1]]
    /\ arrivals' = EmptyMap
    /\ admitted' = [x \in {y \in DOMAIN admitted :
                                \E i \in 1..(MinuteTicks - 1) : admitted[y][i] > 0} |->
                       [i \in 1..MinuteTicks |-> IF i = 1 THEN 0 ELSE admitted[x][i - 1]]]
    /\ UNCHANGED <<settings, req, upstream, caught, state_request_id, generated, resp, op,
                   result, sent, forwarded, timeout, inflight>>

Receive ==
    \E r \in Requests : \E out \in RouteOutcomes(r.route) :
        /\ Total(arrivals, DOMAIN arrivals) < MaxRequests
        /\ HandleRequest(r, out)

\* a burst of requests inside one minute: no counter expires
Next == Receive

Spec == Init /\ [][Next]_vars

Call ==
    \E name \in ClientOps : \E base_url \in BaseUrls : \E out \in Outcomes :
        CallClient(name, base_url, out, {})

InitClients == Init /\ settings = FullConfig

SpecClients == InitClients /\ [][Call]_vars

\* the configured timeouts, REQUEST_TIMEOUT_MS being free
TimeoutConfigs ==
    {[FullConfig EXCEPT !.request_timeout_ms = ms] : ms \in {10000, 2500, 0, -1}}

\* the keyword arguments a call may carry: no timeout, None, 0, a number
TimeoutKwargs ==
    {{}} \cup {{<<"timeout", t>>} : t \in {None, Some(0), Some(5000)}}

TimedOutcomes ==
    {TimesOut, Fails, Responds(500, Text, BodyBoom), Responds(200, Json, BodyAgents),
     Responds(200, Json, BodyPacks), Responds(200, Json, BodyJob)}

\* one call of one operation with one timeout argument; a call without a
\* timeout cannot time out
CallTimed ==
    \E name \in ClientOps : \E base_url \in {None, Some(OperatorUrl)} :
        \E out \in TimedOutcomes : \E kwargs \in TimeoutKwargs :
            /\ op = NoOp
            /\ (out = TimesOut
                => ~(name = "UpstreamClient.request" /\ kwargs = {<<"timeout", None>>}))
            /\ (kwargs # {} => name \in {"UpstreamClient.request",
                                         "UpstreamClient.proxy_request"})
            /\ CallClient(name, base_url, out, kwargs)

InitTimeouts == InitWith(TimeoutConfigs)

SpecTimeouts == InitTimeouts /\ [][CallTimed]_vars

\* requests that differ in their X-Request-ID header, the operator up or down
ReceiveIds ==
    \E r \in IdRequests :
        \E out \in {Responds(200, Json, BodyAgents), Responds(500, Text, BodyBoom)} :
            /\ Total(arrivals, DOMAIN arrivals) < MaxRequests
            /\ HandleRequest(r, out)

SpecIds == InitClients /\ [][ReceiveIds]_vars

\* the calls of the route functions themselves, past routing, dependencies and
\* limit: the pack id may then be empty
RouteCalls ==
    {Request(route, id, Some("secret"), None, None, None) :
        route \in DecoratedRoutes, id \in {"", "alpha"}}

\* one route function is called, and its return value is sent with the status
\* of its route
CallRoute(r, out) ==
    \E h \in {CASE r.route = "/v1/agents" -> list_agents(r, settings, out)
                [] r.route = "/v1/packs" -> list_packs(r, settings, out)
                [] r.route = "/v1/packs/{id}/install" -> install_pack(r, settings, out)} :
    /\ req' = r
    /\ upstream' = out
    /\ resp' = IF h.raised THEN NoResponse ELSE h.value
    /\ caught' = IF h.raised THEN Some(h.exc) ELSE None
    /\ sent' = h.sent
    /\ timeout' = IF h.sent = 0 THEN NotIssued ELSE Handed(Some(request_timeout(settings)))
    /\ UNCHANGED <<settings, storage, arrivals, admitted, state_request_id, generated,
                   op, result, forwarded, inflight>>

CallRoutes == \E r \in RouteCalls : \E out \in Outcomes : CallRoute(r, out)

SpecRoutes == Init /\ [][CallRoutes]_vars

\* the most headers one proxied request carries (SpecProxy)
MaxHeaders == 2

HeaderNames == {"Host", "TE", "accept-encoding", "X-Tag", "x-tag", "content-type"}
HeaderValues == {"a", "application/json"}
InboundHeaders ==
    UNION {[1..n -> HeaderNames \X HeaderValues] : n \in 0..MaxHeaders}

\* the headers an upstream sends besides Content-Type
UpstreamHeaders == {<<>>, <<<<"set-cookie", <<"s=1">>>>, <<"x-upstream", <<"u">>>>>>}

ProxyRequest(method, headers, body) ==
    [route |-> "/v1/core/{full_path}", method |-> method, full_path |-> "things",
     params |-> <<>>, headers |-> headers, body |-> body, client_host |-> "127.0.0.1"]

ProxyRequests ==
    {ProxyRequest(method, headers, body) :
        method \in {"GET", "POST"}, headers \in InboundHeaders,
        body \in {None, Some(BodyJob), Some(BodyNull), Some(BodyNotJson)}}

ProxyOutcomes ==
    {TimesOut, Responds(500, Text, BodyBoom), Responds(200, Json, BodyAgents),
     Responds(201, <<>>, BodyBoom)}

\* proxy_core is called, and its return value is sent
CallProxy(r, out, upstream_headers) ==
    \E h \in {proxy_core(r, settings, out, upstream_headers)} :
    /\ req' = r
    /\ forwarded' = extract_proxy_payload(r)
    /\ upstream' = [kind |-> out.kind, status |-> out.status, ctype |-> out.ctype,
                    body |-> out.body, headers |-> upstream_headers]
    /\ resp' = IF h.raised THEN NoResponse ELSE h.value
    /\ caught' = IF h.raised THEN Some(h.exc) ELSE None
    /\ sent' = h.sent
    /\ timeout' = IF h.sent = 0 THEN NotIssued
                  ELSE Handed(UpstreamClient_proxy_request_timeout(build_core_client(settings),
                                                                   None))
    /\ UNCHANGED <<settings, storage, arrivals, admitted, state_request_id, generated,
                   op, result, inflight>>

\* one call of the handler on one request
CallProxies ==
    \E r \in ProxyRequests : \E out \in ProxyOutcomes :
        \E upstream_headers \in UpstreamHeaders :
            /\ req = NoRequest
            /\ CallProxy(r, out, upstream_headers)

SpecProxy == InitClients /\ [][CallProxies]_vars

FloodOutcome == Responds(200, Json, BodyAgents)

\* the request gets as far as the limit: a decorated route checks it after the
\* authentication, any other route in SlowAPIMiddleware
ReachesLimit(r) ==
    \/ r.route \notin DecoratedRoutes
    \/ ~api_key_auth(r.x_api_key, r.authorization, allowed_api_keys(settings)).raised

\* A request enters on task i: the pipeline runs up to the await of its
\* upstream call, the limit having counted the request by then. The limit is
\* hit in one synchronous call on the event loop, without an await inside.
\* The counters do not depend on what the upstream does later.
Enter(i, r) ==
    /\ ~inflight[i].busy
    /\ storage' = ErrorHandlerMiddleware_dispatch(r, settings, storage, TimesOut,
                                                  uuid4(Len(generated))).storage
    /\ inflight' = [inflight EXCEPT ![i] = [busy |-> TRUE, request |-> r,
                                            storage |-> storage]]
    /\ arrivals' = [x \in DOMAIN arrivals \cup {Scope(r)} |->
                        IF x = Scope(r) THEN Arrived(x) + 1 ELSE arrivals[x]]
    /\ UNCHANGED <<settings, admitted, req, upstream, caught, state_request_id, generated,
                   resp, op, result, sent, forwarded, timeout>>

\* The upstream of the request on task i behaves as out, and the request is
\* answered: what the pipeline returns for the counters the request met when
\* it entered.
Finish(i, out) ==
    /\ inflight[i].busy
    /\ \E answer \in {ErrorHandlerMiddleware_dispatch(inflight[i].request, settings,
                                                      inflight[i].storage, out,
                                                      uuid4(Len(generated)))} :
        /\ req' = inflight[i].request
        /\ state_request_id' = answer.request_id
        /\ generated' = IF TruthyStr(inflight[i].request.x_request_id) THEN generated
                        ELSE Append(generated, uuid4(Len(generated)))
        /\ upstream' = out
        /\ caught' = answer.caught
        /\ resp' = answer.response
        /\ sent' = answer.sent
        /\ timeout' = IF answer.sent = 0 THEN NotIssued
                      ELSE Handed(Some(request_timeout(settings)))
        /\ admitted' = IF ReachesLimit(inflight[i].request) /\ answer.response.status # 429
                       THEN [x \in DOMAIN admitted \cup {Scope(inflight[i].request)} |->
                                IF x = Scope(inflight[i].request)
                                THEN [Recent(x) EXCEPT ![1] = @ + 1] ELSE admitted[x]]
                       ELSE admitted
    /\ inflight' = [inflight EXCEPT ![i] = NoTask]
    /\ UNCHANGED <<settings, storage, arrivals, op, result, forwarded>>

\* the requests served at the same time: on a decorated route, on the default limit
ConcurrentRequests ==
    {Request("/v1/agents", "", Some("secret"), None, Some("secret"), Some("flood")),
     Request("/health", "", None, None, None, Some("flood"))}

\* the first requests of the window, which arrive one after the other; the
\* ones after them overlap, up to and beyond the limit
Sequential == RATE_LIMIT - MaxInflight - 1

\* a flood of one request, up to MaxInflight of them served at the same time
EnterFlood ==
    \E i \in 1..MaxInflight : \E r \in ConcurrentRequests :
        /\ req \in {NoRequest, r}
        /\ \A j \in 1..MaxInflight : inflight[j].busy => inflight[j].request = r
        /\ Arrived(Scope(r)) < Sequential => \A j \in 1..MaxInflight : ~inflight[j].busy
        /\ Arrived(Scope(r)) <= RATE_LIMIT
        /\ Enter(i, r)

FinishFlood == \E i \in 1..MaxInflight : Finish(i, FloodOutcome)

NextConcurrent == EnterFlood \/ FinishFlood

SpecConcurrent == InitClients /\ [][NextConcurrent]_vars

\* the configured keys: API_KEYS empty, of one key, of two, of an empty
\* string; PUBLIC_API_KEY absent, empty, set
AuthConfigs ==
    {[FullConfig EXCEPT !.api_keys = keys, !.public_api_key = public] :
        keys \in {<<>>, <<"secret">>, <<"secret", "other">>, <<"">>},
        public \in {None, Some(""), Some("public")}}

\* the x-api-key headers a request may carry
AuthKeys == {None, Some(""), Some("secret"), Some("other"), Some("public"), Some("wrong")}

\* the Authorization headers a request may carry
AuthAuthorizations ==
    {None, Bearer("secret"), Bearer("public"), Bearer("wrong"), Bearer(""),
     Some([scheme |-> "bearer", sep |-> TRUE, rest |-> "secret"]),
     Some([scheme |-> "Basic", sep |-> TRUE, rest |-> "secret"]),
     Some([scheme |-> "secret", sep |-> FALSE, rest |-> ""])}

\* api_key_auth is called for a request with these headers
CallAuth ==
    \E x_api_key \in AuthKeys : \E authorization \in AuthAuthorizations :
        /\ op' = [name |-> "api_key_auth", x_api_key |-> x_api_key,
                  authorization |-> authorization]
        /\ result' = api_key_auth(x_api_key, authorization, allowed_api_keys(settings))
        /\ UNCHANGED <<settings, storage, arrivals, admitted, req, upstream, caught,
                       state_request_id, generated, resp, sent, forwarded, timeout,
                       inflight>>

InitAuth == InitWith(AuthConfigs)

SpecAuth == InitAuth /\ [][CallAuth]_vars

\* a flood: one caller repeats its request, and the upstream is healthy
Flood ==
    \E r \in FloodRequests :
        /\ req \in {NoRequest, r}
        /\ Arrived(Scope(r)) <= RATE_LIMIT
        /\ HandleRequest(r, FloodOutcome)

NextFlood == Flood \/ Tick

SpecFlood == InitClients /\ [][NextFlood]_vars

----------------------------------------------------------------------------
(* The properties *)

\* the keys the configuration accepts
ConfiguredKeys == {allowed_api_keys(settings)[i] : i \in 1..Len(allowed_api_keys(settings))}

\* the keys a request presents, in any header that may carry one
PresentedKeys(r) ==
    (IF r.x_api_key # None THEN {Val(r.x_api_key)} ELSE {})
    \cup (IF r.authorization # None /\ StartsWithBearer(r.authorization)
          THEN {Val(r.authorization).rest} ELSE {})
    \cup (IF r.x_br_key # None THEN {Val(r.x_br_key)} ELSE {})

\* the body is the error envelope {"error": {...}} with this code
IsErrorEnvelope(body, code) == DOMAIN body = {"error"} /\ body.error.code = code

C2_BrKeyIsAccepted ==
    (/\ req.route = "/v1/agents"
     /\ req.x_br_key # None
     /\ Val(req.x_br_key) \in ConfiguredKeys
     /\ TruthyUrl(settings.operator_url)
     /\ upstream = Responds(200, Json, BodyAgents))
    => (/\ resp.status = 200
        /\ DOMAIN resp.body = {"ok", "agents", "source"}
        /\ resp.body.ok
        /\ resp.body.agents = BodyAgents.value)

\* the operation of op raised an UpstreamError with this status code
RaisedUpstreamError(status_code) ==
    result.raised /\ IsUpstreamError(result.exc) /\ result.exc.status_code = status_code

\* C3 (as the specification states it): whichever client operation it is, an
\* upstream call that times out makes it raise UpstreamError with status 504.
C3_TimeoutIs504 ==
    (op.name \in ClientOps /\ sent = 1 /\ op.out.kind = "timeout")
    => RaisedUpstreamError(504)

\* C4 (as the specification states it): whichever client operation it is, a
\* non-2xx upstream status S makes it raise UpstreamError with status S whose
\* details hold the upstream's response body.
C4_StatusAndBodyMirrored ==
    (op.name \in ClientOps /\ sent = 1
     /\ op.out.kind = "response" /\ ~IsSuccess(op.out.status))
    => (/\ RaisedUpstreamError(op.out.status)
        /\ HasKey(result.exc.details, "body")
        /\ Get(result.exc.details, "body") = op.out.body.text)

\* C5: every operation of a client built with an absent or empty base URL
\* raises UpstreamError with status 502, and no HTTP request is issued.
C5_NoUrlFailsFast ==
    (op.name \in ClientOps /\ (op.base_url = None \/ op.base_url = Some(<<>>)))
    => (RaisedUpstreamError(502) /\ sent = 0 /\ result.sent = 0)

\* C5's case: the pack index client, built without a URL, asked for the packs
\* of an upstream that would have answered
C5_Witness ==
    /\ op.name = "PackIndexClient.list_packs"
    /\ op.base_url = None
    /\ op.out = Responds(200, Json, BodyPacks)
    /\ RaisedUpstreamError(502)
    /\ sent = 0

\* the operation of op parses the body of the response it got as JSON
ParsesJson ==
    /\ op.name \in {"UpstreamClient.request", "CatalogClient.list_agents",
                    "OperatorClient.enqueue_install", "PackIndexClient.list_packs"}
    /\ sent = 1
    /\ op.out.kind = "response" /\ IsSuccess(op.out.status)
    /\ (op.name \in {"UpstreamClient.request", "OperatorClient.enqueue_install"}
        => IsJsonContentType(op.out.ctype))

\* C6 (as the specification states it): an operation that parses a 2xx body
\* which is not valid JSON raises UpstreamError with status 502, and nothing else.
C6_InvalidJsonIs502 ==
    (ParsesJson /\ ~op.out.body.valid) => RaisedUpstreamError(502)

RECURSIVE SumSeq(_)
SumSeq(q) == IF q = <<>> THEN 0 ELSE Head(q) + SumSeq(Tail(q))

\* C7 (as the specification states it): for every rate-limit key, the limit
\* lets through at most 100 requests in any window of one minute, the
\* MinuteTicks most recent intervals being such a window.
C7_AtMost100PerMinute ==
    \A sc \in DOMAIN admitted : SumSeq(admitted[sc]) <= RATE_LIMIT

\* C8 (as the specification states it): on the rate-limited routes every
\* request received is counted on the budget of its key or address, the
\* requests that fail authentication included.
C8_EveryRequestIsCounted ==
    \A sc \in DOMAIN arrivals :
        sc[2] \in {RequestPath(r) : r \in {x \in Requests : x.route \in DecoratedRoutes}}
        => arrivals[sc] <= Count(storage, sc)

\* C9 (as the specification states it): an exception that is neither an
\* UpstreamError, an HTTP error nor a rate-limit error is answered 500 with
\* code INTERNAL_ERROR and the fixed message "An unexpected error occurred",
\* whatever its own message.
C9_GenericMessage ==
    (caught # None /\ ~IsHTTPException(Val(caught)))
    => (/\ resp.status = 500
        /\ IsErrorEnvelope(resp.body, "INTERNAL_ERROR")
        /\ resp.body.error.message = <<"An unexpected error occurred">>)

\* C10: an UpstreamError e that reaches the error handler is answered with
\* status e.status_code and code UPSTREAM_ERROR, and the details of the
\* envelope hold source = e.source and every entry of e.details.
C10_UpstreamErrorEnvelope ==
    (caught # None /\ IsUpstreamError(Val(caught)))
    => (/\ resp.status = Val(caught).status_code
        /\ IsErrorEnvelope(resp.body, "UPSTREAM_ERROR")
        /\ "details" \in DOMAIN resp.body.error
        /\ HasKey(resp.body.error.details, "source")
        /\ Get(resp.body.error.details, "source") = Val(caught).source
        /\ Val(caught).details \subseteq resp.body.error.details)

\* C10's case: the operator answered 500 to the catalog client, whose
\* UpstreamError carries the body in its details
C10_Witness ==
    /\ req.route = "/v1/agents"
    /\ upstream = Responds(500, Text, BodyBoom)
    /\ caught # None /\ IsUpstreamError(Val(caught))
    /\ Val(caught).details = {<<"body", "boom">>}
    /\ resp.status = 500
    /\ resp.body.error.code = "UPSTREAM_ERROR"

HasHeader(response, name) == \E h \in response.headers : h[1] = name

\* C12 (as the specification states it): every response that leaves the
\* gateway carries an X-Request-ID header, the error responses of
\* ErrorHandlerMiddleware included.
C12_RequestIdOnEveryResponse ==
    resp.status # 0 => HasHeader(resp, "X-Request-ID")

\* C13: a request that supplies a non-empty X-Request-ID v and is handled
\* without error is answered with X-Request-ID: v, v being its request-scoped
\* id; a request that supplies none gets a generated id, stored and echoed, and
\* no two generated ids are the same.
C13_RequestIdRoundTrip ==
    /\ (req.route # "none" /\ TruthyStr(req.x_request_id))
       => (/\ state_request_id = req.x_request_id
           /\ caught = None => <<"X-Request-ID", Val(req.x_request_id)>> \in resp.headers)
    /\ (req.route # "none" /\ ~TruthyStr(req.x_request_id))
       => (/\ generated # <<>>
           /\ state_request_id = Some(generated[Len(generated)])
           /\ caught = None
              => <<"X-Request-ID", generated[Len(generated)]>> \in resp.headers)
    /\ \A i, j \in 1..Len(generated) : i # j => generated[i] # generated[j]

\* C13's case: the second of two requests without the header is served
C13_Witness ==
    /\ req.route = "/v1/agents"
    /\ req.x_request_id = None
    /\ Len(generated) = 2
    /\ caught = None
    /\ resp.status = 200
    /\ <<"X-Request-ID", generated[2]>> \in resp.headers

\* C14 (as the specification states it): install_pack reached with an empty
\* pack id answers 400 with the error code INVALID_PACK and sends nothing to
\* the operator.
C14_EmptyIdIs400 ==
    (req.route = "/v1/packs/{id}/install" /\ req.id = "")
    => (/\ resp.status = 400
        /\ "error" \in DOMAIN resp.body
        /\ resp.body.error.code = "INVALID_PACK"
        /\ sent = 0)

\* the request presents a configured key where the authentication reads it
PresentsValidKey(r) ==
    \/ r.x_api_key # None /\ Val(r.x_api_key) \in ConfiguredKeys
    \/ /\ ~TruthyStr(r.x_api_key)
       /\ r.authorization # None /\ StartsWithBearer(r.authorization)
       /\ Val(r.authorization).rest \in ConfiguredKeys

StatedName(item) ==
    IF HasKey(item.fields, "name") THEN Get(item.fields, "name")
    ELSE IF HasKey(item.fields, "id") THEN Get(item.fields, "id") ELSE JNull

\* the pack the specification states for the items, as <<id, version>> pairs in
\* input order: the prefixed names with the prefix cut, the version or "latest"
RECURSIVE StatedPacks(_)
StatedPacks(items) ==
    IF items = <<>> THEN <<>>
    ELSE LET item == Head(items)
             kept == /\ item.t = "dict"
                     /\ StatedName(item).t = "str"
                     /\ HasPackPrefix(StatedName(item).s)
         IN (IF kept
             THEN <<<<JStr(Tail(StatedName(item).s)),
                      IF HasKey(item.fields, "version") THEN Get(item.fields, "version")
                      ELSE JStr(<<"latest">>)>>>>
             ELSE <<>>) \o StatedPacks(Tail(items))

\* the payload is an object with a list under packs, packages or items, or an array
IsPackPayload(payload) ==
    \/ payload.t = "list"
    \/ /\ payload.t = "dict"
       /\ \E k \in {"packs", "packages", "items"} :
            HasKey(payload.fields, k) /\ Get(payload.fields, k).t = "list"

\* C16 (as the specification states it): for every pack-index payload
\* list_packs returns, without raising, exactly the items whose name (or id)
\* has the prefix, in input order, with the prefix cut from the id and with the
\* item's version, or "latest" when it has none.
C16_PacksFiltered ==
    (/\ op.name = "PackIndexClient.list_packs"
     /\ sent = 1
     /\ op.out.kind = "response" /\ IsSuccess(op.out.status)
     /\ op.out.body.valid
     /\ IsPackPayload(op.out.body.value))
    => (/\ ~result.raised
        /\ [i \in 1..Len(result.value) |-> <<result.value[i].id, result.value[i].version>>]
           = StatedPacks(PackItems(op.out.body.value).items))

\* the agents the specification states for a payload: the list under agents,
\* the payload itself when it is an array, the empty list otherwise
StatedAgents(payload) ==
    IF payload.t = "dict" /\ HasKey(payload.fields, "agents")
       /\ Get(payload.fields, "agents").t = "list"
    THEN Get(payload.fields, "agents")
    ELSE IF payload.t = "list" THEN payload ELSE JList(<<>>)

\* C17 (as the specification states it): on every 2xx payload that is valid
\* JSON, list_agents does not raise and returns as agents a list: the one under
\* agents, the payload itself when it is an array, the empty list for any
\* other shape.
C17_AgentsIsAList ==
    (/\ op.name = "CatalogClient.list_agents"
     /\ sent = 1
     /\ op.out.kind = "response" /\ IsSuccess(op.out.status)
     /\ op.out.body.valid)
    => (/\ ~result.raised
        /\ result.value.agents.t = "list"
        /\ result.value.agents = StatedAgents(op.out.body.value))

\* the job identifier the specification states for a parsed body: the value of
\* the first key present among jobId, id, job_id, "pending" when none is
StatedJobId(body) ==
    IF body.t # "dict" THEN JStr(<<"pending">>)
    ELSE CASE HasKey(body.fields, "jobId") -> Get(body.fields, "jobId")
           [] HasKey(body.fields, "id") -> Get(body.fields, "id")
           [] HasKey(body.fields, "job_id") -> Get(body.fields, "job_id")
           [] OTHER -> JStr(<<"pending">>)

\* C18 (as the specification states it): enqueue_install returns as jobId the
\* value of the first key present among jobId, id, job_id, "pending" only when
\* none is present; a 2xx response without a JSON content-type is not parsed
\* and gives "pending" without an error.
C18_JobIdFirstKeyPresent ==
    (/\ op.name = "OperatorClient.enqueue_install"
     /\ sent = 1
     /\ op.out.kind = "response" /\ IsSuccess(op.out.status))
    => IF IsJsonContentType(op.out.ctype)
       THEN op.out.body.valid
            => (~result.raised /\ result.value.jobId = StatedJobId(op.out.body.value))
       ELSE ~result.raised /\ result.value.jobId = JStr(<<"pending">>)

\* the hop-by-hop names of the specification, in lower case
StatedHopByHop ==
    {"host", "content-length", "connection", "keep-alive", "proxy-authenticate",
     "proxy-authorization", "te", "trailers", "transfer-encoding", "upgrade",
     "accept-encoding"}

\* the inbound headers whose name is not hop-by-hop, values unchanged
StatedForwarded(headers) ==
    {headers[i] : i \in {j \in DOMAIN headers : Lower(headers[j][1]) \notin StatedHopByHop}}

\* the headers an upstream response of the model carries
SentByUpstream ==
    {upstream.headers[i] : i \in DOMAIN upstream.headers}
    \cup (IF upstream.ctype = <<>> THEN {} ELSE {<<"content-type", upstream.ctype>>})

\* C19 (as the specification states it): the headers forwarded upstream are
\* exactly the inbound headers whose name is not hop-by-hop, compared without
\* regard to case, each with its value; the rebuilt response carries the
\* upstream status and body and, of the upstream headers, only Content-Type.
C19_ProxyHeaders ==
    req.route = "/v1/core/{full_path}"
    => (/\ forwarded.headers = StatedForwarded(req.headers)
        /\ caught = None
           => (/\ resp.status = upstream.status
               /\ resp.body = upstream.body.text
               /\ resp.headers \cap SentByUpstream
                  = {h \in SentByUpstream : h[1] = "content-type"}))

C21_HealthAlways200 ==
    req.route = "/health"
    => (/\ resp.status = 200
        /\ resp.body.status = "ok"
        /\ "uptime" \in DOMAIN resp.body)

\* a request was served in this step
Served == arrivals' # arrivals /\ arrivals' # EmptyMap

\* C22 (as the specification states it): an exception raised anywhere in the
\* pipeline is caught by ErrorHandlerMiddleware, none is turned into a response
\* by an inner layer first. Stated for the limiter: when a request is served
\* and the limit raises RateLimitExceeded, that exception is what
\* ErrorHandlerMiddleware caught.
C22_CaughtByErrorHandler ==
    [][(/\ Served
        /\ ReachesLimit(req')
        /\ ~Hit(storage, Scope(req')).allowed)
       => caught' = Some(RateLimitExceeded)]_vars

\* the response reports an error: an error status, or the body of a generated
\* route that says ok: false
IsErrorResponse(r, response) ==
    \/ response.status >= 400
    \/ (/\ r.route \in DecoratedRoutes
        /\ "ok" \in DOMAIN response.body
        /\ response.body.ok = FALSE)

\* C23 (as the specification states it): an error response is built by
\* ErrorHandlerMiddleware only, from an exception it caught.
C23_OnlyErrorHandlerBuildsErrors ==
    (req # NoRequest /\ IsErrorResponse(req, resp)) => caught # None

\* the inbound request says its body is JSON, and the body parses as JSON
IsJsonRequest(r) ==
    /\ r.body # None
    /\ NamesJson(HeaderGet(r.headers, "content-type"))
    /\ Val(r.body).valid

\* C24 (as the specification states it): the payload of a proxied request has
\* exactly one of body and json populated, json when the content type is JSON
\* and the body parses as JSON, body otherwise.
C24_ExactlyOneOfBodyAndJson ==
    req.route \in ProxyRoutes
    => (/\ (forwarded.body # None) # (forwarded.json # None)
        /\ (forwarded.json # None) = IsJsonRequest(req))

\* the timeout the specification states for a call: the override when one is
\* supplied, 0 included, the client's default otherwise
StatedTimeout(kwargs, default_timeout) ==
    IF HasKey(kwargs, "timeout") /\ Get(kwargs, "timeout") # None
    THEN Get(kwargs, "timeout") ELSE Some(default_timeout)

\* C25 (as the specification states it): request and proxy_request hand the
\* transport the same timeout for every override: the override when one is
\* supplied, 0 included, the client's default_timeout otherwise.
C25_SameEffectiveTimeout ==
    (/\ op.name \in {"UpstreamClient.request", "UpstreamClient.proxy_request"}
     /\ timeout.given)
    => timeout.timeout = StatedTimeout(op.kwargs, request_timeout(settings))

\* C26 (as the specification states it): every upstream call is issued with a
\* finite timeout, never with "no timeout", whatever REQUEST_TIMEOUT_MS and the
\* per-call timeout argument are.
C26_TimeoutIsBounded ==
    timeout.given => (timeout.timeout # None /\ Val(timeout.timeout) >= 0)

\* the requests the limit let through on the counter sc in its window
PassedInWindow(sc) == IF sc \in DOMAIN admitted THEN admitted[sc][1] ELSE 0

UpstreamFailed ==
    \/ op.out.kind \in {"timeout", "error"}
    \/ op.out.kind = "response" /\ ~IsSuccess(op.out.status)

\* C28: a client operation issues at most one HTTP request to the upstream,
\* whether it succeeds or fails; when the upstream call times out, fails or
\* answers with a status that is not 2xx, the operation raises after that one
\* request.
C28_AtMostOneAttempt ==
    op.name \in ClientOps
    => (/\ sent <= 1
        /\ result.sent = sent
        /\ (sent >= 1 /\ UpstreamFailed) => (result.raised /\ sent = 1))

\* C28's case: request, on a client with a base URL, whose upstream call
\* timed out: it raised after the one request
C28_Witness ==
    /\ op.name = "UpstreamClient.request"
    /\ op.base_url = Some(OperatorUrl)
    /\ op.out = TimesOut
    /\ result.raised
    /\ sent = 1

\* the request is one api_key_auth accepts
Accepted(r) ==
    /\ r.route \in DecoratedRoutes
    /\ ~api_key_auth(r.x_api_key, r.authorization, allowed_api_keys(settings)).raised

\* the API key api_key_auth accepted the request by: x-api-key when it is not
\* empty, else the Bearer token
AcceptedKey(r) ==
    IF TruthyStr(r.x_api_key) THEN Val(r.x_api_key) ELSE Val(r.authorization).rest

\* C29 (as the specification states it): the rate limiter and the
\* authentication identify the caller by the same credential: the rate-limit
\* key of a request whose API key api_key_auth accepts is that API key.
C29_SameCredential ==
    (req # NoRequest /\ Accepted(req)) => rate_limit_key(req) = AcceptedKey(req)

\* the effective key, as the specification states it: the x-api-key header
\* when it is not empty, otherwise the token after "Bearer " in Authorization
EffectiveKey(x_api_key, authorization) ==
    IF x_api_key # None /\ Val(x_api_key) # "" THEN x_api_key
    ELSE IF authorization # None /\ Val(authorization).scheme = "Bearer"
            /\ Val(authorization).sep
         THEN Some(Val(authorization).rest)
         ELSE None

\* the keys of API_KEYS and PUBLIC_API_KEY
StatedKeys ==
    {settings.api_keys[i] : i \in 1..Len(settings.api_keys)}
    \cup (IF settings.public_api_key # None THEN {Val(settings.public_api_key)} ELSE {})

====
